---- MODULE Spec2Model ----
(***************************************************************************)
(* A model of pandas.core.indexes.range.RangeIndex: the (start, stop,      *)
(* step) progression, its construction, indexing and slicing, equality,    *)
(* intersection and union, scalar arithmetic, floor division, and the      *)
(* lazily cached dense array.                                              *)
(***************************************************************************)
EXTENDS Integers, Sequences, FiniteSets, TLC

VARIABLES a, b, call, res, cached_data, pc, tmp, ret

vars == <<a, b, call, res, cached_data, pc, tmp, ret>>

(***************************************************************************)
(* Bounds of the model.                                                    *)
(***************************************************************************)
MaxVal == 3
MaxStep == 4
MaxScalar == 2
MaxIdx == 3
MaxSliceStep == 2
NumThreads == 2
MaxChainVal == 2
MaxChainIdx == 1
MaxGcdArg == 4

(***************************************************************************)
(* Python values: None, integer arithmetic, the built-in range.            *)
(***************************************************************************)
None == <<>>
Some(n) == <<n>>
Val(x) == x[1]

\* `x or d` on an optional integer: None and 0 are falsy
OrElse(x, d) == IF x = None \/ Val(x) = 0 THEN d ELSE Val(x)

Abs(n) == IF n < 0 THEN -n ELSE n
Min2(x, y) == IF x <= y THEN x ELSE y
Max2(x, y) == IF x >= y THEN x ELSE y

\* Python's // : the quotient rounded towards minus infinity, any sign of d
PyFloorDiv(n, d) ==
    LET q == Abs(n) \div Abs(d)
        exact == q * Abs(d) = Abs(n)
    IN  IF (n < 0) = (d < 0) THEN q
        ELSE IF exact THEN -q ELSE -q - 1

\* Python's % : the remainder takes the sign of d
PyMod(n, d) == n - d * PyFloorDiv(n, d)

PyRange(start, stop, step) == [start |-> start, stop |-> stop, step |-> step]

\* len(range): CPython's compute_range_length
RangeLen(r) ==
    IF r.step > 0 /\ r.start < r.stop
        THEN 1 + (r.stop - 1 - r.start) \div r.step
    ELSE IF r.step < 0 /\ r.start > r.stop
        THEN 1 + (r.start - 1 - r.stop) \div (-r.step)
    ELSE 0

\* list(range): the element sequence
Elems(r) == [i \in 1..RangeLen(r) |-> r.start + (i - 1) * r.step]

SeqSet(s) == {s[i] : i \in 1..Len(s)}

\* set(range): the element set
ElemSet(r) == SeqSet(Elems(r))

\* range == range: CPython's range_equals, a comparison as sequences
RangeEq(r0, r1) ==
    IF RangeLen(r0) # RangeLen(r1) THEN FALSE
    ELSE IF RangeLen(r0) = 0 THEN TRUE
    ELSE IF r0.start # r1.start THEN FALSE
    ELSE IF RangeLen(r0) = 1 THEN TRUE
    ELSE r0.step = r1.step

\* slice.indices(len) as range.__getitem__ applies it: the bounds clamped
SliceBound(x, len, lower, upper, dflt) ==
    IF x = None THEN dflt
    ELSE IF Val(x) < 0
        THEN (IF Val(x) + len < lower THEN lower ELSE Val(x) + len)
    ELSE (IF Val(x) > upper THEN upper ELSE Val(x))

\* range[lo:hi:st] with st # 0: CPython's compute_slice
RangeSlice(r, lo, hi, st) ==
    LET step == IF st = None THEN 1 ELSE Val(st)
        len == RangeLen(r)
        lower == IF step < 0 THEN -1 ELSE 0
        upper == IF step < 0 THEN len - 1 ELSE len
        start == SliceBound(lo, len, lower, upper, IF step < 0 THEN upper ELSE lower)
        stop == SliceBound(hi, len, lower, upper, IF step < 0 THEN lower ELSE upper)
    IN  PyRange(r.start + start * r.step, r.start + stop * r.step, r.step * step)

(***************************************************************************)
(* Results of an operation: a RangeIndex, a dense Int64Index, a scalar, a  *)
(* boolean, or a raised exception.                                         *)
(***************************************************************************)
RangeRes(r) == [kind |-> "range", rng |-> r]
DenseRes(s) == [kind |-> "dense", vals |-> s]
IntRes(n) == [kind |-> "int", val |-> n]
BoolRes(v) == [kind |-> "bool", flag |-> v]
FloatRes == [kind |-> "float"]
Raise(e) == [kind |-> "error", err |-> e]
NoRes == [kind |-> "none"]
NoCall == [op |-> "none"]

\* the element sequence a result denotes
Values(x) ==
    IF x.kind = "range" THEN Elems(x.rng)
    ELSE IF x.kind = "dense" THEN x.vals
    ELSE <<>>

(***************************************************************************)
(* Constructors.                                                           *)
(***************************************************************************)
\* a variant of _simple_new that passes the step on as it is given
SimpleNewInt_RawStep(start, stop, step) ==
    RangeRes(PyRange(start, OrElse(stop, 0), IF step = None THEN 1 ELSE Val(step)))

\* _simple_new on an integer start: range(start, stop or 0, step or 1)
SimpleNewInt(start, stop, step) ==
    RangeRes(PyRange(start, OrElse(stop, 0), OrElse(step, 1)))

\* a variant of __new__ that leaves a lone start where it was given
New_SingleValueIsStart(start, stop, step) ==
    IF start = None /\ stop = None /\ step = None
        THEN Raise("TypeError")
    ELSE
        LET start1 == IF start # None THEN Val(start) ELSE 0
            stop1 == IF stop = None THEN 0 ELSE Val(stop)
            step1 == IF step # None THEN Val(step) ELSE 1
        IN  IF step1 = 0 THEN Raise("ValueError")
            ELSE SimpleNewInt(start1, Some(stop1), Some(step1))

\* RangeIndex.__new__(start, stop, step) on optional integers
New(start, stop, step) ==
    IF start = None /\ stop = None /\ step = None
        THEN Raise("TypeError")
    ELSE
        LET start0 == IF start # None THEN Val(start) ELSE 0
            start1 == IF stop = None THEN 0 ELSE start0
            stop1 == IF stop = None THEN start0 ELSE Val(stop)
            step1 == IF step # None THEN Val(step) ELSE 1
        IN  IF step1 = 0 THEN Raise("ValueError")
            ELSE SimpleNewInt(start1, Some(stop1), Some(step1))

\* RangeIndex._simple_new(start, stop, step) on optional integers
SimpleNew(start, stop, step) ==
    IF start = None /\ stop = None
        THEN SimpleNewInt(0, Some(0), Some(1))
    ELSE IF start = None THEN New(start, stop, step)
    ELSE SimpleNewInt(Val(start), stop, step)

\* RangeIndex.from_range(range)
FromRange(r) == New(Some(r.start), Some(r.stop), Some(r.step))

(***************************************************************************)
(* The universe of inputs.                                                 *)
(***************************************************************************)
Vals == -MaxVal..MaxVal
Steps == (-MaxStep..MaxStep) \ {0}
Ranges == {PyRange(s, e, st) : s \in Vals, e \in Vals, st \in Steps}
SortHints == {"False", "None"}

Threads == 1..NumThreads

\* no reader has called _data: the cache slot holds None
InitData ==
    /\ cached_data = None
    /\ pc = [t \in Threads |-> "idle"]
    /\ tmp = [t \in Threads |-> None]
    /\ ret = [t \in Threads |-> <<>>]

dataVars == <<cached_data, pc, tmp, ret>>

(***************************************************************************)
(* The dense array behind an index.                                        *)
(***************************************************************************)
\* the quotient rounded towards plus infinity
CeilDiv(n, d) == -PyFloorDiv(-n, d)

\* np.arange(start, stop, step, dtype=int64): ceil((stop - start) / step)
\* values, none when that is not positive, the i-th being start + i * step
Arange(start, stop, step) ==
    LET n == Max2(0, CeilDiv(stop - start, step))
    IN  [i \in 1..n |-> start + (i - 1) * step]

RECURSIVE SortedSeq(_)
\* the elements of a finite set of integers in ascending order
SortedSeq(S) ==
    IF S = {} THEN <<>>
    ELSE LET m == CHOOSE x \in S : \A y \in S : x <= y
         IN  <<m>> \o SortedSeq(S \ {m})

\* Int64Index._union on two dense arrays: the sorted deduplicated union, or
\* without sorting the left values followed by the right values not among them
Int64Union(left, right, sort) ==
    IF sort = "None" THEN DenseRes(SortedSeq(SeqSet(left) \cup SeqSet(right)))
    ELSE DenseRes(left \o SelectSeq(right, LAMBDA x : x \notin SeqSet(left)))

(***************************************************************************)
(* Equality, indexing and slicing.                                         *)
(***************************************************************************)
\* a variant of equals that compares the raw (start, stop, step) triples
Equals_RawTriples(self, other) ==
    self.start = other.start /\ self.stop = other.stop /\ self.step = other.step

\* RangeIndex.equals(other) for a RangeIndex other
Equals(self, other) == RangeEq(self, other)

\* a variant of __getitem__ whose upper bound check is off by one
GetItem_EndInclusive(self, key) ==
    LET i == IF key < 0 THEN key + RangeLen(self) ELSE key
    IN  IF i < 0 \/ i > RangeLen(self) THEN Raise("IndexError")
        ELSE IntRes(self.start + i * self.step)

\* RangeIndex.__getitem__(key) for an integer key: range[key]
GetItem(self, key) ==
    LET i == IF key < 0 THEN key + RangeLen(self) ELSE key
    IN  IF i < 0 \/ i >= RangeLen(self) THEN Raise("IndexError")
        ELSE IntRes(self.start + i * self.step)

\* a variant of __getitem__ that keeps the magnitude of the index's step
GetItemSlice_KeepsStep(self, lo, hi, st) ==
    IF st # None /\ Val(st) = 0 THEN Raise("ValueError")
    ELSE LET r == RangeSlice(self, lo, hi, st)
         IN  New(Some(r.start), Some(r.stop),
                 Some(IF r.step < 0 THEN -Abs(self.step) ELSE Abs(self.step)))

\* RangeIndex.__getitem__(slice(lo, hi, st))
GetItemSlice(self, lo, hi, st) ==
    IF st # None /\ Val(st) = 0 THEN Raise("ValueError")
    ELSE FromRange(RangeSlice(self, lo, hi, st))

\* Index._get_reconciled_name_object: the index itself, up to its label
GetReconciledNameObject(self, other) == RangeRes(self)

\* Index.sort_values on a progression: ascending orientation
SortValues(self) ==
    IF self.step < 0 THEN RangeRes(RangeSlice(self, None, None, Some(-1)))
    ELSE RangeRes(self)

(***************************************************************************)
(* Intersection.                                                           *)
(***************************************************************************)
RECURSIVE GcdLoop(_, _, _, _, _, _)
\* the while loop of _extended_gcd
GcdLoop(s, old_s, t, old_t, r, old_r) ==
    IF r = 0 THEN <<old_r, old_s, old_t>>
    ELSE LET quotient == PyFloorDiv(old_r, r)
         IN  GcdLoop(old_s - quotient * s, s,
                     old_t - quotient * t, t,
                     old_r - quotient * r, r)

\* RangeIndex._extended_gcd(x, y): <<gcd, s, t>>
ExtendedGcd(x, y) == GcdLoop(0, 1, 1, 0, y, x)

\* a variant of _min_fitting_element that rounds the step count down
MinFittingElement_RoundsDown(self, lower_limit) ==
    LET no_steps == PyFloorDiv(lower_limit - self.start, Abs(self.step))
    IN  self.start + Abs(self.step) * no_steps

\* RangeIndex._min_fitting_element(lower_limit)
MinFittingElement(self, lower_limit) ==
    LET no_steps == -PyFloorDiv(-(lower_limit - self.start), Abs(self.step))
    IN  self.start + Abs(self.step) * no_steps

\* RangeIndex._max_fitting_element(upper_limit)
MaxFittingElement(self, upper_limit) ==
    LET no_steps == PyFloorDiv(upper_limit - self.start, Abs(self.step))
    IN  self.start + Abs(self.step) * no_steps

\* the tail of intersection: restore the orientation, then sort on request
IntersectionOrient(self, other, sort, new_index) ==
    LET oriented ==
            IF (self.step < 0 /\ other.step < 0) # (new_index.step < 0)
                THEN GetItemSlice(new_index, None, None, Some(-1))
            ELSE RangeRes(new_index)
    IN  IF sort = "None" THEN SortValues(oriented.rng) ELSE oriented

\* RangeIndex.intersection(other, sort) for a RangeIndex other
Intersection(self, other, sort) ==
    IF Equals(self, other) THEN GetReconciledNameObject(self, other)
    ELSE IF RangeLen(self) = 0 \/ RangeLen(other) = 0
        THEN SimpleNew(None, None, None)
    ELSE
        LET first == IF self.step < 0
                        THEN RangeSlice(self, None, None, Some(-1)) ELSE self
            second == IF other.step < 0
                        THEN RangeSlice(other, None, None, Some(-1)) ELSE other
            int_low == Max2(first.start, second.start)
            int_high == Min2(first.stop, second.stop)
        IN  IF int_high <= int_low THEN SimpleNew(None, None, None)
            ELSE
                LET g == ExtendedGcd(first.step, second.step)
                    gcd == g[1]
                    s == g[2]
                IN  IF PyMod(first.start - second.start, gcd) # 0
                        THEN SimpleNew(None, None, None)
                    ELSE
                        LET tmp_start == first.start +
                                PyFloorDiv((second.start - first.start) * first.step, gcd) * s
                            new_step == PyFloorDiv(first.step * second.step, gcd)
                            new_index0 == SimpleNew(Some(tmp_start), Some(int_high),
                                                    Some(new_step)).rng
                            new_start == MinFittingElement(new_index0, int_low)
                            new_index == SimpleNew(Some(new_start), Some(new_index0.stop),
                                                   Some(new_index0.step)).rng
                        IN  IntersectionOrient(self, other, sort, new_index)

(***************************************************************************)
(* Union.                                                                  *)
(***************************************************************************)
\* Index._union's early returns: the side that is not empty, or self
SuperUnion(self, other, sort) ==
    IF RangeLen(other) = 0 \/ Equals(self, other)
        THEN GetReconciledNameObject(self, other)
    ELSE GetReconciledNameObject(other, self)

\* _union, steps equal and the phases equal: the two progressions touch or
\* overlap; <<>> when the rule does not apply
EqualStepRule(start_s, step_s, end_s, start_o, end_o) ==
    IF /\ PyMod(start_s - start_o, step_s) = 0
       /\ (start_s - end_o) <= step_s
       /\ (start_o - end_s) <= step_s
        THEN <<New(Some(Min2(start_s, start_o)),
                   Some(Max2(end_s, end_o) + step_s), Some(step_s))>>
    ELSE <<>>

\* a variant of the half-step rule that puts the stop a full step past the end
HalfStepRule_FullStepStop(start_s, step_s, end_s, start_o, end_o) ==
    IF /\ PyMod(step_s, 2) = 0
       /\ 2 * Abs(start_s - start_o) <= step_s
       /\ 2 * Abs(end_s - end_o) <= step_s
        THEN <<New(Some(Min2(start_s, start_o)),
                   Some(Max2(end_s, end_o) + step_s), Some(step_s \div 2))>>
    ELSE <<>>

\* _union, steps equal and even: the progressions interleave at half the
\* step (step_s / 2 is integral here, so the comparisons are on integers)
HalfStepRule(start_s, step_s, end_s, start_o, end_o) ==
    IF /\ PyMod(step_s, 2) = 0
       /\ 2 * Abs(start_s - start_o) <= step_s
       /\ 2 * Abs(end_s - end_o) <= step_s
        THEN <<New(Some(Min2(start_s, start_o)),
                   Some(Max2(end_s, end_o) + step_s \div 2), Some(step_s \div 2))>>
    ELSE <<>>

\* _union, the step of the coarse progression a multiple of the step of the
\* fine one, the coarse one within one fine step of the fine one's ends
MultipleStepRule(start_fine, step_fine, end_fine, start_coarse, end_coarse) ==
    IF /\ PyMod(start_coarse - start_fine, step_fine) = 0
       /\ (start_coarse + step_fine >= start_fine)
       /\ (end_coarse - step_fine <= end_fine)
        THEN <<New(Some(Min2(start_fine, start_coarse)),
                   Some(Max2(end_fine, end_coarse) + step_fine), Some(step_fine))>>
    ELSE <<>>

\* the closed forms of _union on the two progressions normalised to an
\* increasing orientation, in the order the code tries them; <<>> when none
\* applies
UnionClosedForm(start_s, step_s, end_s, start_o, step_o, end_o) ==
    IF step_o = step_s THEN
        LET equal == EqualStepRule(start_s, step_s, end_s, start_o, end_o)
        IN  IF equal # <<>> THEN equal
            ELSE HalfStepRule(start_s, step_s, end_s, start_o, end_o)
    ELSE IF PyMod(step_o, step_s) = 0
        THEN MultipleStepRule(start_s, step_s, end_s, start_o, end_o)
    ELSE IF PyMod(step_s, step_o) = 0
        THEN MultipleStepRule(start_o, step_o, end_o, start_s, end_s)
    ELSE <<>>

\* RangeIndex._union(other, sort) for a RangeIndex other
Union(self, other, sort) ==
    IF RangeLen(other) = 0 \/ Equals(self, other) \/ RangeLen(self) = 0
        THEN SuperUnion(self, other, sort)
    ELSE
        LET dense == Int64Union(Arange(self.start, self.stop, self.step),
                                Arange(other.start, other.stop, other.step), sort)
        IN  IF sort # "None" THEN dense
            ELSE
                LET end_s0 == self.start + self.step * (RangeLen(self) - 1)
                    end_o0 == other.start + other.step * (RangeLen(other) - 1)
                    sneg == self.step < 0
                    oneg == other.step < 0
                    start_s == IF sneg THEN end_s0 ELSE self.start
                    step_s0 == IF sneg THEN -self.step ELSE self.step
                    end_s == IF sneg THEN self.start ELSE end_s0
                    start_o == IF oneg THEN end_o0 ELSE other.start
                    step_o0 == IF oneg THEN -other.step ELSE other.step
                    end_o == IF oneg THEN other.start ELSE end_o0
                    one_s == RangeLen(self) = 1
                    one_o == RangeLen(other) = 1
                    step_s == IF one_s /\ one_o THEN Abs(self.start - other.start)
                              ELSE IF one_s THEN step_o0
                              ELSE step_s0
                    step_o == IF one_s /\ one_o THEN Abs(self.start - other.start)
                              ELSE IF one_s THEN step_o0
                              ELSE IF one_o THEN step_s0
                              ELSE step_o0
                    closed == UnionClosedForm(start_s, step_s, end_s,
                                              start_o, step_o, end_o)
                IN  IF closed # <<>> THEN closed[1] ELSE dense

(***************************************************************************)
(* The set algebra on two indexes.  The indexes are immutable and the      *)
(* operations pure: a behaviour draws the pair and applies one operation.  *)
(***************************************************************************)
InitSet ==
    /\ a \in Ranges
    /\ b \in Ranges
    /\ call = NoCall
    /\ res = NoRes
    /\ InitData

EqualsAct ==
    /\ call = NoCall
    /\ call' = [op |-> "equals"]
    /\ res' = BoolRes(Equals(a, b))
    /\ UNCHANGED <<a, b, dataVars>>

IntersectionAct ==
    \E sort \in SortHints :
        /\ call = NoCall
        /\ call' = [op |-> "intersection", sort |-> sort]
        /\ res' = Intersection(a, b, sort)
        /\ UNCHANGED <<a, b, dataVars>>

UnionAct ==
    \E sort \in SortHints :
        /\ call = NoCall
        /\ call' = [op |-> "union", sort |-> sort]
        /\ res' = Union(a, b, sort)
        /\ UNCHANGED <<a, b, dataVars>>

NextSet == EqualsAct \/ IntersectionAct \/ UnionAct

SpecSet == InitSet /\ [][NextSet]_vars

(***************************************************************************)
(* Scalar arithmetic and floor division.                                   *)
(***************************************************************************)
\* operator.add, operator.sub, operator.mul and the reflected ops.radd,
\* ops.rsub, ops.rmul on two integers, x the left and y the right argument
ApplyOp(op, x, y) ==
    IF op = "add" THEN x + y
    ELSE IF op = "sub" THEN x - y
    ELSE IF op = "radd" THEN y + x
    ELSE IF op = "rsub" THEN y - x
    ELSE IF op = "rmul" THEN y * x
    ELSE x * y

\* the step override of _make_evaluate_binop: __mul__ and __rmul__ pass one
HasStepOp(op) == op \in {"mul", "rmul"}

\* op(self._int64index, other): the operator applied to each value
Int64BinOp(self, other, op) ==
    LET data == Arange(self.start, self.stop, self.step)
    IN  DenseRes([i \in 1..Len(data) |-> ApplyOp(op, data[i], other)])

\* a variant of _evaluate_numeric_binop that never applies the step override
BinOp_StepNotScaled(self, other, op) ==
    LET rstart == ApplyOp(op, self.start, other)
        rstop == ApplyOp(op, self.stop, other)
        result == New(Some(rstart), Some(rstop), Some(self.step))
    IN  IF result.kind = "error" THEN Int64BinOp(self, other, op)
        ELSE result

\* _evaluate_numeric_binop(self, other) for an integer other and op one of
\* add, sub, mul
BinOp(self, other, op) ==
    LET rstep == IF HasStepOp(op) THEN ApplyOp(op, self.step, other)
                 ELSE self.step
        rstart == ApplyOp(op, self.start, other)
        rstop == ApplyOp(op, self.stop, other)
        result == New(Some(rstart), Some(rstop), Some(rstep))
    IN  IF HasStepOp(op) /\ rstep = 0 THEN Int64BinOp(self, other, op)
        ELSE IF result.kind = "error" THEN Int64BinOp(self, other, op)
        ELSE result

\* self._int64index // other: each value floor-divided; a division by zero
\* leaves the integers
Int64FloorDiv(self, other) ==
    LET data == Arange(self.start, self.stop, self.step)
    IN  IF other = 0 THEN FloatRes
        ELSE DenseRes([i \in 1..Len(data) |-> PyFloorDiv(data[i], other)])

\* a variant of __floordiv__ that tests the divisibility of start alone
FloorDiv_StartOnly(self, other) ==
    IF other # 0 /\ (RangeLen(self) = 0 \/ PyMod(self.start, other) = 0)
        THEN LET start == PyFloorDiv(self.start, other)
                 step == PyFloorDiv(self.step, other)
                 stop == start + RangeLen(self) * step
             IN  SimpleNew(Some(start), Some(stop), Some(step))
    ELSE Int64FloorDiv(self, other)

\* a variant of __floordiv__ without the branch for an index of one element
FloorDiv_NoSingleton(self, other) ==
    IF other # 0 /\ (RangeLen(self) = 0 \/
                     (PyMod(self.start, other) = 0 /\ PyMod(self.step, other) = 0))
        THEN LET start == PyFloorDiv(self.start, other)
                 step == PyFloorDiv(self.step, other)
                 stop == start + RangeLen(self) * step
             IN  SimpleNew(Some(start), Some(stop), Some(step))
    ELSE Int64FloorDiv(self, other)

\* RangeIndex.__floordiv__(other) for an integer other
FloorDiv(self, other) ==
    IF other # 0 /\ (RangeLen(self) = 0 \/
                     (PyMod(self.start, other) = 0 /\ PyMod(self.step, other) = 0))
        THEN LET start == PyFloorDiv(self.start, other)
                 step == PyFloorDiv(self.step, other)
                 stop == start + RangeLen(self) * step
             IN  SimpleNew(Some(start), Some(stop), Some(step))
    ELSE IF other # 0 /\ RangeLen(self) = 1
        THEN LET start == PyFloorDiv(self.start, other)
             IN  SimpleNew(Some(start), Some(start + 1), Some(1))
    ELSE Int64FloorDiv(self, other)

(***************************************************************************)
(* One index: it is constructed, then one operation is applied to it.      *)
(***************************************************************************)
Opt(S) == {None} \cup {Some(n) : n \in S}
Scalars == -MaxScalar..MaxScalar
Keys == -MaxIdx..MaxIdx
SliceSteps == -MaxSliceStep..MaxSliceStep
BinOps == {"add", "sub", "mul"}
ReflectedOps == {"radd", "rsub", "rmul"}
OptVals == Opt(Vals)
OptSteps == Opt(Steps \cup {0})
OptKeys == Opt(Keys)
OptSliceSteps == Opt(SliceSteps)

Init ==
    /\ a = None
    /\ b = None
    /\ call = NoCall
    /\ res = NoRes
    /\ InitData

\* the index has been constructed and nothing has been applied to it yet
Constructed == call.op = "new" /\ res.kind = "range"

NewAct ==
    /\ call = NoCall
    /\ \E start \in OptVals, stop \in OptVals, step \in OptSteps :
        /\ call' = [op |-> "new", start |-> start, stop |-> stop, step |-> step]
        /\ res' = New(start, stop, step)
        /\ a' = IF res'.kind = "range" THEN res'.rng ELSE a
        /\ UNCHANGED <<b, dataVars>>

GetItemAct ==
    /\ Constructed
    /\ \E key \in Keys :
        /\ call' = [op |-> "getitem", key |-> key]
        /\ res' = GetItem(a, key)
        /\ UNCHANGED <<a, b, dataVars>>

GetSliceAct ==
    /\ Constructed
    /\ \E lo \in OptKeys, hi \in OptKeys, st \in OptSliceSteps :
        /\ call' = [op |-> "getslice", lo |-> lo, hi |-> hi, st |-> st]
        /\ res' = GetItemSlice(a, lo, hi, st)
        /\ UNCHANGED <<a, b, dataVars>>

BinOpAct ==
    /\ Constructed
    /\ \E op \in BinOps, k \in Scalars :
        /\ call' = [op |-> op, k |-> k]
        /\ res' = BinOp(a, k, op)
        /\ UNCHANGED <<a, b, dataVars>>

FloorDivAct ==
    /\ Constructed
    /\ \E k \in Scalars :
        /\ call' = [op |-> "floordiv", k |-> k]
        /\ res' = FloorDiv(a, k)
        /\ UNCHANGED <<a, b, dataVars>>

\* k + self, k - self, k * self: __radd__, __rsub__, __rmul__
ReflectedOpAct ==
    /\ Constructed
    /\ \E op \in ReflectedOps, k \in Scalars :
        /\ call' = [op |-> op, k |-> k]
        /\ res' = BinOp(a, k, op)
        /\ UNCHANGED <<a, b, dataVars>>

Next ==
    \/ NewAct \/ GetItemAct \/ GetSliceAct \/ BinOpAct \/ FloorDivAct
    \/ ReflectedOpAct

Spec == Init /\ [][Next]_vars

(***************************************************************************)
(* The lazily cached dense array: readers of the _data property of one     *)
(* index, interleaved at the reads and writes of the cache slot.  A reader *)
(* tests the slot, on None builds the array and stores it, then returns    *)
(* what the slot holds.                                                    *)
(***************************************************************************)
InitDataSpec ==
    /\ a \in Ranges
    /\ b = None
    /\ call = NoCall
    /\ res = NoRes
    /\ InitData

\* a reader enters the _data property
CallData(t) ==
    /\ pc[t] = "idle"
    /\ pc' = [pc EXCEPT ![t] = "check"]
    /\ UNCHANGED <<a, b, call, res, cached_data, tmp, ret>>

\* if self._cached_data is None
CheckCache(t) ==
    /\ pc[t] = "check"
    /\ pc' = [pc EXCEPT ![t] = IF cached_data = None THEN "arange" ELSE "return"]
    /\ UNCHANGED <<a, b, call, res, cached_data, tmp, ret>>

\* np.arange(self.start, self.stop, self.step, dtype=np.int64)
BuildArray(t) ==
    /\ pc[t] = "arange"
    /\ tmp' = [tmp EXCEPT ![t] = Some(Arange(a.start, a.stop, a.step))]
    /\ pc' = [pc EXCEPT ![t] = "store"]
    /\ UNCHANGED <<a, b, call, res, cached_data, ret>>

\* self._cached_data = <the array built>
StoreCache(t) ==
    /\ pc[t] = "store"
    /\ cached_data' = tmp[t]
    /\ tmp' = [tmp EXCEPT ![t] = None]
    /\ pc' = [pc EXCEPT ![t] = "return"]
    /\ UNCHANGED <<a, b, call, res, ret>>

\* a variant of _data that returns the array the reader built itself
DataResult_LocalArray(cache, local) == local

\* return self._cached_data
DataResult(cache, local) == cache

ReturnData(t) ==
    /\ pc[t] = "return"
    /\ ret' = [ret EXCEPT ![t] = <<DataResult(cached_data, tmp[t])>>]
    /\ pc' = [pc EXCEPT ![t] = "idle"]
    /\ UNCHANGED <<a, b, call, res, cached_data, tmp>>

NextData ==
    \E t \in Threads :
        CallData(t) \/ CheckCache(t) \/ BuildArray(t) \/ StoreCache(t) \/ ReturnData(t)

SpecData == InitDataSpec /\ [][NextData]_vars

(***************************************************************************)
(* Claims on one index.                                                    *)
(***************************************************************************)
\* the mathematical floor of x / k for k # 0
FloorOfQuotient(x, k) ==
    CHOOSE q \in -(Abs(x) + 1)..(Abs(x) + 1) :
        IF k > 0 THEN q * k <= x /\ x < (q + 1) * k
        ELSE q * k >= x /\ x > (q + 1) * k

\* C3: for every progression a, every integer k and op among +, -, *, the
\* element sequence of binary_op(a, k, op) is op(x, k) for each element x of
\* a, in the order and length of a.
C3_ArithmeticIsElementwise ==
    call.op \in BinOps =>
        /\ res.kind \in {"range", "dense"}
        /\ Values(res) =
             [i \in 1..RangeLen(a) |-> ApplyOp(call.op, Elems(a)[i], call.k)]

\* C3 witness: a decreasing progression of two elements or more multiplied
\* by a negative scalar, the result a progression.
C3_Witness ==
    /\ call.op = "mul"
    /\ call.k < 0
    /\ a.step < 0
    /\ RangeLen(a) >= 2
    /\ res.kind = "range"

\* C4: for every progression a and every integer k other than 0, the element
\* sequence of a // k is floor(x / k) for each element x of a, in closed form
\* or through the dense fallback.
C4_FloorDivIsElementwiseFloor ==
    call.op = "floordiv" /\ call.k # 0 =>
        /\ res.kind \in {"range", "dense"}
        /\ Values(res) =
             [i \in 1..RangeLen(a) |-> FloorOfQuotient(Elems(a)[i], call.k)]

\* C4 witness: a progression of two elements or more whose start and step a
\* negative k divides, floor-divided in closed form.
C4_Witness ==
    /\ call.op = "floordiv"
    /\ call.k < -1
    /\ RangeLen(a) >= 2
    /\ res.kind = "range"

\* C5: construction from optional start, stop and step raises TypeError
\* exactly when all three are absent, raises ValueError exactly when the
\* step resolves to 0, and otherwise yields the progression with start 0
\* when absent and step 1 when absent, a start given without a stop being
\* the stop of a progression that starts at 0.
C5_Construction ==
    call.op = "new" =>
        LET allNone == call.start = None /\ call.stop = None /\ call.step = None
            zeroStep == call.step # None /\ Val(call.step) = 0
            given == IF call.start = None THEN 0 ELSE Val(call.start)
            step == IF call.step = None THEN 1 ELSE Val(call.step)
        IN  /\ (res = Raise("TypeError")) = allNone
            /\ (res = Raise("ValueError")) = zeroStep
            /\ ~allNone /\ ~zeroStep =>
                 res = RangeRes(IF call.stop = None THEN PyRange(0, given, step)
                                ELSE PyRange(given, Val(call.stop), step))

\* C5 witness: a start given with a step and without a stop has built a
\* progression that is not empty.
C5_Witness ==
    /\ call.op = "new"
    /\ call.start # None
    /\ call.stop = None
    /\ call.step # None
    /\ res.kind = "range"
    /\ RangeLen(res.rng) >= 2

\* C7: on a progression of n elements, element_at(i) is start + i * step for
\* 0 <= i < n, start + (n + i) * step for -n <= i < 0, and IndexError for
\* every other i; a value it returns is an element of the progression.
C7_ElementAt ==
    call.op = "getitem" =>
        LET n == Len(Elems(a))
            i == call.key
        IN  /\ 0 <= i /\ i < n => res = IntRes(a.start + i * a.step)
            /\ -n <= i /\ i < 0 => res = IntRes(a.start + (n + i) * a.step)
            /\ i >= n \/ i < -n => res = Raise("IndexError")
            /\ res.kind = "int" => res.val \in ElemSet(a)

\* C7 witness: a negative index has returned an element of a progression of
\* two elements or more.
C7_Witness ==
    /\ call.op = "getitem"
    /\ call.key < 0
    /\ RangeLen(a) >= 2
    /\ res.kind = "int"

\* the positions (from 0) that the list slice [lo:hi:st] of a list of n items
\* selects, st # 0, in the order it selects them
SlicePositions(n, lo, hi, st) ==
    LET k == IF st = None THEN 1 ELSE Val(st)
        wrap(x) == IF Val(x) < 0 THEN Val(x) + n ELSE Val(x)
        from == IF lo = None THEN (IF k > 0 THEN 0 ELSE n - 1)
                ELSE IF k > 0 THEN Max2(wrap(lo), 0)
                ELSE Min2(wrap(lo), n - 1)
        chosen == {x \in 0..(n - 1) :
                     /\ IF k > 0 THEN x >= from ELSE x <= from
                     /\ hi # None => IF k > 0 THEN x < wrap(hi) ELSE x > wrap(hi)
                     /\ PyMod(x - from, k) = 0}
        up == SortedSeq(chosen)
    IN  IF k > 0 THEN up ELSE [j \in 1..Len(up) |-> up[Len(up) + 1 - j]]

\* C8: for every progression a and every slice (lo, hi, st) with integer or
\* absent bounds and a step that is absent or not 0, slicing raises nothing
\* and returns a progression whose element sequence is the list slice
\* [lo:hi:st] of the element sequence of a; a slice that selects nothing
\* returns an empty progression.
C8_SliceIsListSlice ==
    call.op = "getslice" /\ (call.st = None \/ Val(call.st) # 0) =>
        LET pos == SlicePositions(RangeLen(a), call.lo, call.hi, call.st)
        IN  /\ res.kind = "range"
            /\ Values(res) = [j \in 1..Len(pos) |-> Elems(a)[pos[j] + 1]]

\* C8 witness: a slice of negative step and a bound beyond the end has
\* selected two elements or more.
C8_Witness ==
    /\ call.op = "getslice"
    /\ call.st # None /\ Val(call.st) < -1
    /\ call.lo # None /\ Val(call.lo) >= RangeLen(a)
    /\ res.kind = "range"
    /\ RangeLen(res.rng) >= 2

(***************************************************************************)
(* The worked examples of the specification: the progressions of its       *)
(* scenarios 1 to 4, under the same set algebra.                           *)
(***************************************************************************)
ScenarioRanges ==
    {PyRange(0, 10, 2), PyRange(1, 10, 2), PyRange(0, 10, 1), PyRange(5, 15, 1),
     PyRange(1, 11, 2), PyRange(0, 20, 5), PyRange(0, 20, 10)}

InitScenario ==
    /\ a \in ScenarioRanges
    /\ b \in ScenarioRanges
    /\ call = NoCall
    /\ res = NoRes
    /\ InitData

SpecScenario == InitScenario /\ [][NextSet]_vars

(***************************************************************************)
(* Claims on the set algebra.                                              *)
(***************************************************************************)
IsAscending(s) == \A i \in 1..Len(s) : \A j \in 1..Len(s) : i < j => s[i] < s[j]

\* C1: for all progressions a and b and either sort hint, intersection(a, b)
\* is a progression whose element set is the element set of a intersected
\* with the element set of b, so that intersection(b, a) has the same
\* element set.
C1_IntersectionIsSetIntersection ==
    call.op = "intersection" =>
        /\ res.kind = "range"
        /\ SeqSet(Values(res)) = ElemSet(a) \cap ElemSet(b)
        /\ SeqSet(Values(Intersection(b, a, call.sort))) = SeqSet(Values(res))

\* C1 witness: an intersection of two different progressions of different
\* steps, one of them decreasing, that has two elements or more.
C1_Witness ==
    /\ call.op = "intersection"
    /\ ~Equals(a, b)
    /\ a.step < 0
    /\ Abs(a.step) # Abs(b.step)
    /\ Len(Values(res)) >= 2

\* C6: equals(a, b) is true exactly when a and b have the same element
\* sequence, whatever their raw stop and (for fewer than two elements) step;
\* and two progressions of the same element sequence take the fast path of
\* intersection and of union, which return a itself.
C6_EqualsIsSequenceEquality ==
    /\ call.op = "equals" => res.flag = (Elems(a) = Elems(b))
    /\ call.op \in {"intersection", "union"} /\ Elems(a) = Elems(b)
            => res = RangeRes(a)

\* C6 witness: two progressions of two elements or more with different raw
\* stops are found equal.
C6_Witness ==
    /\ call.op = "equals"
    /\ res.flag
    /\ a.stop # b.stop
    /\ RangeLen(a) >= 2

\* C2: for all progressions a and b and the ascending sort hint, the element
\* set of union(a, b) is the element set of a united with the element set of
\* b (the part of the claim that the closed forms of _union decide; the claim
\* adds that the elements come in ascending order).
C2_UnionIsSetUnion ==
    call.op = "union" /\ call.sort = "None" =>
        SeqSet(Values(res)) = ElemSet(a) \cup ElemSet(b)

\* C10 as stated: the union of Progression(0, 10, 2) and Progression(1, 11, 2)
\* with the ascending hint is a progression equal to Progression(0, 11, 1).
C10_ScenarioThreeAsStated ==
    /\ a = PyRange(0, 10, 2)
    /\ b = PyRange(1, 11, 2)
    /\ call.op = "union"
    /\ call.sort = "None"
    => res.kind = "range" /\ Equals(res.rng, PyRange(0, 11, 1))

\* C10 amended: the union of Progression(0, 10, 2) and Progression(1, 11, 2)
\* with the ascending hint is a progression equal to Progression(0, 10, 1),
\* the ten integers 0 to 9.
C10_ScenarioThree ==
    /\ a = PyRange(0, 10, 2)
    /\ b = PyRange(1, 11, 2)
    /\ call.op = "union"
    /\ call.sort = "None"
    => /\ res.kind = "range"
       /\ Equals(res.rng, PyRange(0, 10, 1))
       /\ Values(res) = <<0, 1, 2, 3, 4, 5, 6, 7, 8, 9>>

\* C10 witness: the union of scenario 3 has been formed.
C10_Witness ==
    /\ a = PyRange(0, 10, 2)
    /\ b = PyRange(1, 11, 2)
    /\ call.op = "union"
    /\ call.sort = "None"
    /\ res.kind = "range"

(***************************************************************************)
(* Claims on the cached dense array.                                       *)
(***************************************************************************)
\* C9: under any interleaving of readers of _data on one index, whatever a
\* reader has been returned is the whole array start + i * step for i from 0
\* to the length of the index; once the cache slot holds an array its
\* contents never change; and a call changes nothing of the index but the
\* slot.
C9_MaterializeUnderRaces ==
    /\ [](\A t \in Threads : ret[t] # <<>> => ret[t] = <<Some(Elems(a))>>)
    /\ [][/\ cached_data # None => cached_data' = cached_data
          /\ a' = a]_vars

\* C9 witness: two readers both found the slot empty; one has stored its
\* array and returned, the other is about to store its own.
C9_Witness ==
    \E t1 \in Threads, t2 \in Threads :
        /\ t1 # t2
        /\ pc[t1] = "store"
        /\ cached_data # None
        /\ ret[t2] # <<>>
        /\ RangeLen(a) >= 2

(***************************************************************************)
(* Chains of operations: an index is constructed, and each operation is    *)
(* applied to the progression the operation before it returned.  A result  *)
(* that is no progression (a dense index, an exception) ends the chain.    *)
(* The chain is followed while start, stop and step stay within            *)
(* -MaxChainVal..MaxChainVal.                                              *)
(***************************************************************************)
ChainVals == -MaxChainVal..MaxChainVal
OptChainVals == Opt(ChainVals)
OptChainKeys == Opt(-MaxChainIdx..MaxChainIdx)
ChainRanges ==
    {PyRange(s, e, st) : s \in ChainVals, e \in ChainVals, st \in ChainVals \ {0}}

InChain(r) == r.start \in ChainVals /\ r.stop \in ChainVals /\ r.step \in ChainVals

\* the operation returns: its result is the current progression when it is one
Returns(c, result) ==
    /\ result.kind = "range" => InChain(result.rng)
    /\ call' = c
    /\ res' = result
    /\ a' = IF result.kind = "range" THEN result.rng ELSE a
    /\ UNCHANGED <<b, dataVars>>

\* the operation before returned a progression, which is a
Chained == res.kind = "range"

ChainNew ==
    /\ call = NoCall
    /\ \E start \in OptChainVals, stop \in OptChainVals, step \in OptChainVals :
        Returns([op |-> "new"], New(start, stop, step))

ChainSlice ==
    /\ Chained
    /\ \E lo \in OptChainKeys, hi \in OptChainKeys, st \in OptSliceSteps :
        Returns([op |-> "getslice"], GetItemSlice(a, lo, hi, st))

\* self[::-1]
ChainReverse ==
    /\ Chained
    /\ Returns([op |-> "reverse"], GetItemSlice(a, None, None, Some(-1)))

\* RangeIndex.copy
ChainCopy ==
    /\ Chained
    /\ Returns([op |-> "copy"], FromRange(a))

ChainIntersection ==
    /\ Chained
    /\ \E other \in ChainRanges, sort \in SortHints :
        Returns([op |-> "intersection"], Intersection(a, other, sort))

ChainUnion ==
    /\ Chained
    /\ \E other \in ChainRanges, sort \in SortHints :
        Returns([op |-> "union"], Union(a, other, sort))

ChainBinOp ==
    /\ Chained
    /\ \E op \in BinOps, k \in Scalars :
        Returns([op |-> op, zero |-> (k = 0)], BinOp(a, k, op))

ChainFloorDiv ==
    /\ Chained
    /\ \E k \in Scalars :
        Returns([op |-> "floordiv", zero |-> (k = 0)], FloorDiv(a, k))

NextChain ==
    \/ ChainNew \/ ChainSlice \/ ChainReverse \/ ChainCopy
    \/ ChainIntersection \/ ChainUnion \/ ChainBinOp \/ ChainFloorDiv

SpecChain == Init /\ [][NextChain]_vars

(***************************************************************************)
(* Claims on chains of operations.                                         *)
(***************************************************************************)
\* C11: every progression that a successful construction followed by any
\* sequence of slice, reverse, copy, intersection, union, +, -, * and //
\* returns has a step other than 0; a multiplication by 0, whose closed form
\* would have step 0, returns the dense fallback or raises.
C11_StepNeverZero ==
    /\ res.kind = "range" => a = res.rng /\ res.rng.step # 0
    /\ call.op = "mul" /\ call.zero => res.kind \in {"dense", "error"}

\* C11 witness: a progression of two elements or more, itself the result of
\* an operation, has been multiplied by 0 and the dense fallback returned.
C11_Witness ==
    /\ call.op = "mul"
    /\ call.zero
    /\ res.kind = "dense"
    /\ Len(res.vals) >= 2

(***************************************************************************)
(* Claims on the closed form of floor division.                            *)
(***************************************************************************)
\* k evenly divides x
Divides(k, x) == \E q \in -Abs(x)..Abs(x) : q * k = x

\* C12 as stated: for a progression a and an integer k other than 0, a // k
\* is a progression only if k divides both the start and the step of a, or a
\* has one element and k divides its start; in every other case the result
\* is the dense fallback.
C12_ShortcutAsStated ==
    call.op = "floordiv" /\ call.k # 0 =>
        LET shortcut == \/ Divides(call.k, a.start) /\ Divides(call.k, a.step)
                        \/ RangeLen(a) = 1 /\ Divides(call.k, a.start)
        IN  /\ res.kind = "range" => shortcut
            /\ ~shortcut => res.kind = "dense"

\* C12 amended: for a progression a and an integer k other than 0, a // k is
\* a progression exactly when k divides both the start and the step of a, or
\* a has one element (whatever its start), or a is empty; in every other
\* case the result is the dense fallback.
C12_Shortcut ==
    call.op = "floordiv" /\ call.k # 0 =>
        LET shortcut == \/ Divides(call.k, a.start) /\ Divides(call.k, a.step)
                        \/ RangeLen(a) = 1
                        \/ RangeLen(a) = 0
        IN  /\ res.kind = "range" <=> shortcut
            /\ ~shortcut => res.kind = "dense"

\* C12 witness: an index of one element whose start k does not divide has
\* been floor-divided in closed form.
C12_Witness ==
    /\ call.op = "floordiv"
    /\ call.k # 0
    /\ RangeLen(a) = 1
    /\ ~Divides(call.k, a.start)
    /\ res.kind = "range"

(***************************************************************************)
(* The extended Euclidean algorithm on its own: _extended_gcd is called    *)
(* on a pair of integers and returns.                                      *)
(***************************************************************************)
GcdArgs == -MaxGcdArg..MaxGcdArg

InitGcd ==
    /\ a = None
    /\ b = None
    /\ call \in {[op |-> "extended_gcd", x |-> x, y |-> y] : x \in GcdArgs, y \in GcdArgs}
    /\ res = NoRes
    /\ InitData

ExtendedGcdAct ==
    /\ call.op = "extended_gcd"
    /\ res = NoRes
    /\ LET g == ExtendedGcd(call.x, call.y)
       IN  res' = [kind |-> "gcd", gcd |-> g[1], s |-> g[2], t |-> g[3]]
    /\ UNCHANGED <<a, b, call, dataVars>>

NextGcd == ExtendedGcdAct

SpecGcd == InitGcd /\ [][NextGcd]_vars

(***************************************************************************)
(* Claims on the extended Euclidean algorithm.                             *)
(***************************************************************************)
\* the greatest common divisor of two naturals, gcd(0, 0) being 0
Gcd(m, n) ==
    CHOOSE d \in 0..Max2(m, n) :
        /\ Divides(d, m) /\ Divides(d, n)
        /\ \A e \in 0..Max2(m, n) : Divides(e, m) /\ Divides(e, n) => e <= d

\* C13: for all integers x and y, negative values and y = 0 included,
\* extended_gcd(x, y) returns (g, s, t) with x * s + y * t = g and
\* g = gcd(|x|, |y|), so that g is never negative.
C13_ExtendedGcd ==
    res.kind = "gcd" =>
        /\ call.x * res.s + call.y * res.t = res.gcd
        /\ res.gcd = Gcd(Abs(call.x), Abs(call.y))
        /\ res.gcd >= 0

(***************************************************************************)
(* Claims on the reflected operators.                                      *)
(***************************************************************************)
\* C14: for every progression a and every integer k, k + a has the elements
\* k + x, k * a the elements k * x and k - a the elements k - x, for x each
\* element of a, in the order and length of a; k - a is not empty when a is
\* not.
C14_ReflectedIsElementwise ==
    call.op \in ReflectedOps =>
        /\ res.kind \in {"range", "dense"}
        /\ Values(res) =
             [i \in 1..RangeLen(a) |->
                 IF call.op = "radd" THEN call.k + Elems(a)[i]
                 ELSE IF call.op = "rmul" THEN call.k * Elems(a)[i]
                 ELSE call.k - Elems(a)[i]]
        /\ RangeLen(a) > 0 => Len(Values(res)) > 0

====
